---------------------------- MODULE Spec2Model ----------------------------
(***************************************************************************)
(* A model of the peer wire protocol engine of the BitTorrent client:      *)
(*   - the length-prefixed message framing codec (src/src/peer.rs),        *)
(*   - the piece acquisition loop of the download-piece command            *)
(*     (src/src/main.rs) and of Torrent::download_piece / download_file    *)
(*     (src/src/torrent.rs).                                               *)
(*                                                                         *)
(* Byte strings (BytesMut, Vec<u8>) are kept run-length encoded: a byte    *)
(* string is a sequence of runs [b |-> byte, n |-> count], n >= 1, with    *)
(* no two adjacent runs of the same byte.  The encoding is canonical, so   *)
(* equality of byte strings is equality of their run lists, and the        *)
(* program's constants (65536, 16384) keep their real values.              *)
(***************************************************************************)
EXTENDS Integers, Sequences, FiniteSets, TLC

(***************************************************************************)
(* Program constants.                                                      *)
(***************************************************************************)
MAX == 65536

BLOCK_MAX == 16384

(***************************************************************************)
(* Bounds of the model.                                                    *)
(***************************************************************************)
\* raw bytes the transport may append to the read buffer (codec specification)
MaxRaw == 9

\* pieces of a torrent
MaxPieces == 2

\* whole 16 KiB blocks in a torrent's piece length
MaxFullBlocks == 1

(***************************************************************************)
(* Byte strings.                                                           *)
(***************************************************************************)
Empty == << >>

\* n copies of byte b
BRep(b, n) == IF n > 0 THEN << [b |-> b, n |-> n] >> ELSE Empty

\* src.len()
BLen(s) ==
    LET RECURSIVE Sum(_)
        Sum(i) == IF i = 0 THEN 0 ELSE s[i].n + Sum(i - 1)
    IN Sum(Len(s))

\* dst.extend_from_slice(t): s followed by t
BCat(s, t) ==
    IF s = Empty THEN t
    ELSE IF t = Empty THEN s
    ELSE IF s[Len(s)].b = t[1].b
         THEN SubSeq(s, 1, Len(s) - 1)
              \o << [b |-> t[1].b, n |-> s[Len(s)].n + t[1].n] >>
              \o Tail(t)
         ELSE s \o t

\* dst.put_u8(b)
BPut(s, b) == BCat(s, BRep(b, 1))

\* &s[..k]: the first k bytes of s (all of s when it is shorter)
RECURSIVE BTake(_, _)
BTake(s, k) ==
    IF k <= 0 \/ s = Empty THEN Empty
    ELSE IF s[1].n <= k
         THEN BCat(<< s[1] >>, BTake(Tail(s), k - s[1].n))
         ELSE << [b |-> s[1].b, n |-> k] >>

\* src.advance(k): s without its first k bytes
RECURSIVE BDrop(_, _)
BDrop(s, k) ==
    IF k <= 0 \/ s = Empty THEN s
    ELSE IF s[1].n <= k
         THEN BDrop(Tail(s), k - s[1].n)
         ELSE << [b |-> s[1].b, n |-> s[1].n - k] >> \o Tail(s)

\* &s[from..to]
BSlice(s, from, to) == BTake(BDrop(s, from), to - from)

\* s[i], the byte at index i (from 0); the caller has checked i < s.len()
RECURSIVE BAt(_, _)
BAt(s, i) ==
    IF i < s[1].n THEN s[1].b ELSE BAt(Tail(s), i - s[1].n)

\* a byte string given byte by byte
RECURSIVE BLit(_)
BLit(q) ==
    IF q = << >> THEN Empty ELSE BCat(BRep(q[1], 1), BLit(Tail(q)))

\* u32::to_be_bytes
U32ToBE(x) ==
    BLit(<< (x \div 16777216) % 256, (x \div 65536) % 256,
            (x \div 256) % 256, x % 256 >>)

\* u32::from_be_bytes of a 4-byte string
U32FromBE(s) ==
    BAt(s, 0) * 16777216 + BAt(s, 1) * 65536 + BAt(s, 2) * 256 + BAt(s, 3)


(***************************************************************************)
(* Messages and the framing codec (peer.rs).                               *)
(***************************************************************************)
Choke == 0

Unchoke == 1

Interested == 2

NotInterested == 3

Have == 4

Bitfield == 5

Request == 6

Piece == 7

Cancel == 8

\* MessageTag::from_u8 returns Some for these values and None for the rest
KnownTags == Choke .. Cancel

Msg(tag, payload) == [tag |-> tag, payload |-> payload]

NoMsg == Msg(-1, Empty)

\* the outcome of one call: kind is "msg" (Ok(Some)), "none" (Ok(None)),
\* "ok" (Ok(())), "err" (Err) or "panic"; rest is the buffer after the call
Outcome(kind, msg, why, rest) ==
    [kind |-> kind, msg |-> msg, why |-> why, rest |-> rest]

\* the keep-alive frames at the front of src: each is four zero bytes
KeepAlives(src) ==
    IF src # Empty /\ src[1].b = 0 THEN src[1].n \div 4 ELSE 0

\* decode with a keep-alive discarded and need-more-data reported, without
\* the retry on the rest of the buffer
decodeNoRetry(src) ==
    IF BLen(src) >= 4 /\ U32FromBE(BTake(src, 4)) = 0
    THEN Outcome("none", NoMsg, "", BDrop(src, 4))
    ELSE Outcome("none", NoMsg, "", src)

\* decode with the prefix of an incomplete or oversized frame consumed
RECURSIVE decodeConsumesPrefix(_)
decodeConsumesPrefix(src) ==
    IF BLen(src) < 4
    THEN Outcome("none", NoMsg, "", src)
    ELSE LET length == U32FromBE(BTake(src, 4))
         IN IF length = 0
            THEN decodeConsumesPrefix(BDrop(src, 4 * KeepAlives(src)))
            ELSE IF BLen(src) < 5
            THEN Outcome("none", NoMsg, "", src)
            ELSE IF length > MAX
            THEN Outcome("err", NoMsg, "FrameTooLarge", BDrop(src, 4))
            ELSE IF BLen(src) < 4 + length
            THEN Outcome("none", NoMsg, "", BDrop(src, 4))
            ELSE LET tag == BAt(src, 4)
                     data == BSlice(src, 5, 4 + length)
                     rest == BDrop(src, 4 + length)
                 IN IF tag \in KnownTags
                    THEN Outcome("msg", Msg(tag, data), "", rest)
                    ELSE Outcome("panic", NoMsg, "valid messagetag", rest)

\* MessageFramer::decode.  The code discards one keep-alive (advance(4)) and
\* calls itself; the calls for a run of keep-alives are taken together here.
RECURSIVE decode(_)
decode(src) ==
    IF BLen(src) < 4
    THEN Outcome("none", NoMsg, "", src)
    ELSE LET length == U32FromBE(BTake(src, 4))
         IN IF length = 0
            THEN decode(BDrop(src, 4 * KeepAlives(src)))
            ELSE IF BLen(src) < 5
            THEN Outcome("none", NoMsg, "", src)
            ELSE IF length > MAX
            THEN Outcome("err", NoMsg, "FrameTooLarge", src)
            ELSE IF BLen(src) < 4 + length
            THEN Outcome("none", NoMsg, "", src)
            ELSE LET tag == BAt(src, 4)
                     data == BSlice(src, 5, 4 + length)
                     rest == BDrop(src, 4 + length)
                 IN IF tag \in KnownTags
                    THEN Outcome("msg", Msg(tag, data), "", rest)
                    ELSE Outcome("panic", NoMsg, "valid messagetag", rest)

\* encode with the length prefix counting the payload only, not the tag
encodeLengthWithoutTag(item, dst) ==
    IF BLen(item.payload) + 1 > MAX
    THEN Outcome("err", NoMsg, "FrameTooLarge", dst)
    ELSE Outcome("ok", NoMsg, "",
                 BCat(BPut(BCat(dst, U32ToBE(BLen(item.payload))),
                           item.tag),
                      item.payload))

\* MessageFramer::encode
encode(item, dst) ==
    IF BLen(item.payload) + 1 > MAX
    THEN Outcome("err", NoMsg, "FrameTooLarge", dst)
    ELSE Outcome("ok", NoMsg, "",
                 BCat(BPut(BCat(dst, U32ToBE(BLen(item.payload) + 1)),
                           item.tag),
                      item.payload))

(***************************************************************************)
(* State.                                                                  *)
(***************************************************************************)
VARIABLES
    src,      \* the read buffer handed to decode (Framed's read buffer)
    fed,      \* every byte appended to src so far, in order
    got,      \* the messages decode has returned so far, in order
    hist,     \* the last two codec calls (feed, encode, decode)
    nraw,     \* raw bytes appended so far
    nenc,     \* encode calls so far
    halted,   \* "no", or how the decoder ended: "err" or "panic"
    op,       \* the operation running: "cmd" (the download-piece command),
              \* "piece" (Torrent::download_piece), "file" (download_file)
    torrent,  \* the metainfo: piece length, piece hashes, total length
    piece,    \* the piece index being downloaded
    pc,       \* where the operation stands
    piece_length, \* the local piece_length: u32
    start,    \* the local start: u32
    piece_buf,    \* the local piece_buf
    blocks,   \* the blocks appended to piece_buf, in order
    sent,     \* the messages the client has sent, in order
    closed,   \* the peer has closed the connection
    output,   \* the content of the output file
    ret,      \* what Torrent::download_piece returned last
    fail,     \* how the operation failed: an Err returned or a panic
    honest,   \* the peer has sent Bitfield, Unchoke and one exactly matching
              \* Piece per Request, and nothing else
    stage,    \* how far the peer is in that script: 0, 1 (Bitfield sent),
              \* 2 (Unchoke sent)
    answered, \* the Requests the peer has answered with a Piece message
    log,      \* what the operation has done on the connection and to its
              \* output so far, in order: messages received and taken,
              \* messages sent, pieces written or returned
    hs,       \* the handshake exchange of a command
    before,   \* the content of the output file when the operation began
    lp        \* the block loop of download_piece on wide piece lengths

codecvars == << fed, got, hist, nraw, nenc, halted >>

dlvars ==
    << op, torrent, piece, pc, piece_length, start, piece_buf, blocks, sent,
       closed, output, ret, fail, honest, stage, answered, log, before >>

vars == << src, codecvars, dlvars, hs, lp >>

NoFail == [kind |-> "", how |-> ""]

NoRet == [some |-> FALSE, bytes |-> Empty]

NoTorrent == [pl |-> 0, n |-> 0, length |-> 0, hashes |-> << >>]

\* no handshake is in progress: the connection is past it, or there is none
NoDecoded ==
    [length |-> 0, bittorrent |-> Empty, reserved |-> Empty,
     info_hash |-> Empty, peer_id |-> Empty]

NoReply == [kind |-> "none", h |-> NoDecoded, bytes |-> Empty]

NoHandshake ==
    [info_hash |-> Empty, reply |-> NoReply, mine |-> Empty, wire |-> Empty,
     avail |-> Empty, buf |-> Empty, nread |-> 0, decoded |-> NoDecoded]

\* 2^32 / BLOCK_MAX: a u32 counts less than this many blocks
W == 262144

\* the number top * 2^32 + hi * BLOCK_MAX + lo, with hi < W and
\* lo < BLOCK_MAX; top is 0 for a u32 and may be more for a usize
Wide(top, hi, lo) == [top |-> top, hi |-> hi, lo |-> lo]

NoReq == [begin |-> Wide(0, 0, 0), length |-> Wide(0, 0, 0)]

NoLoop ==
    [build |-> "", given |-> Wide(0, 0, 0), piece_length |-> Wide(0, 0, 0),
     start |-> Wide(0, 0, 0), req |-> NoReq, iter |-> 0, seen |-> 0,
     wrapped |-> FALSE, pc |-> "idle"]

\* an entry of log: "recv" or "send" with the message tag (and for a
\* Request or a Piece the piece index), "write" or "return" with the piece
\* index
Ev(ev, tag, index) == [ev |-> ev, tag |-> tag, index |-> index]

\* no operation is running (the codec specification)
Idle ==
    /\ op = "none"
    /\ torrent = NoTorrent
    /\ piece = 0
    /\ pc = "idle"
    /\ piece_length = 0
    /\ start = 0
    /\ piece_buf = Empty
    /\ blocks = << >>
    /\ sent = << >>
    /\ closed = FALSE
    /\ output = Empty
    /\ ret = NoRet
    /\ fail = NoFail
    /\ honest = TRUE
    /\ stage = 0
    /\ answered = 0
    /\ log = << >>
    /\ before = Empty

(***************************************************************************)
(* The codec specification: a caller that owns one buffer.  The buffer is  *)
(* filled by the transport, one byte at a time, or by one encode call (a   *)
(* loop-back of the encoder into the decoder); decode is called at any     *)
(* moment.                                                                 *)
(***************************************************************************)
\* the bytes the transport may append: 0 (keep-alive and length bytes, and the
\* tag Choke), 1 (a length, and the tag Unchoke) and 9 (no known tag)
RawBytes == {0, 1, 9}

EncPayloads ==
    {Empty, BLit(<< 9, 0 >>), BRep(0, MAX - 1), BRep(0, MAX)}

EncMsgs == {Msg(t, p) : t \in KnownTags, p \in EncPayloads}

\* one call: what was called, the buffer before it, the message handed to
\* encode, and the outcome
Event(call, pre, item, res) ==
    [op |-> call, pre |-> pre, item |-> item, res |-> res]

Push(h, e) == IF Len(h) = 2 THEN << h[2], e >> ELSE Append(h, e)

\* a buffer that holds whole keep-alive frames and nothing else
OnlyKeepAlives(buf) == buf = BRep(0, 4 * KeepAlives(buf))

InitCodec ==
    /\ src = Empty
    /\ fed = Empty
    /\ got = << >>
    /\ hist = << >>
    /\ nraw = 0
    /\ nenc = 0
    /\ halted = "no"
    /\ Idle
    /\ hs = NoHandshake
    /\ lp = NoLoop

\* the transport appends one byte to the read buffer
FeedByte ==
    /\ halted = "no"
    /\ nenc = 0
    /\ nraw < MaxRaw
    /\ \E b \in RawBytes :
          /\ src' = BPut(src, b)
          /\ fed' = BPut(fed, b)
    /\ hist' = Push(hist, Event("feed", Empty, NoMsg,
                                Outcome("ok", NoMsg, "", Empty)))
    /\ nraw' = nraw + 1
    /\ UNCHANGED << got, nenc, halted, dlvars, hs, lp >>

\* encode(item, &mut src), on a buffer that is empty or holds keep-alives
EncodeCall ==
    /\ halted = "no"
    /\ nenc = 0
    /\ OnlyKeepAlives(src)
    /\ \E m \in EncMsgs :
          LET r == encode(m, src)
          IN /\ src' = r.rest
             /\ fed' = BCat(fed, BDrop(r.rest, BLen(src)))
             /\ hist' = Push(hist, Event("encode", src, m, r))
    /\ nenc' = nenc + 1
    /\ UNCHANGED << got, nraw, halted, dlvars, hs, lp >>

\* decode(&mut src)
DecodeCall ==
    /\ halted = "no"
    /\ LET r == decode(src)
       IN /\ src' = r.rest
          /\ got' = IF r.kind = "msg" THEN Append(got, r.msg) ELSE got
          /\ hist' = Push(hist, Event("decode", src, NoMsg, r))
          /\ halted' = IF r.kind \in {"err", "panic"} THEN r.kind ELSE "no"
    /\ UNCHANGED << fed, nraw, nenc, dlvars, hs, lp >>

NextCodec == FeedByte \/ EncodeCall \/ DecodeCall

SpecCodec == InitCodec /\ [][NextCodec]_vars

(***************************************************************************)
(* The torrent and the content it describes (torrent.rs, Info).            *)
(***************************************************************************)
\* Lengths, offsets and indices of the model are below 2^31: there the casts
\* "as u32" keep the value and start + BLOCK_MAX stays within u32.

Min(a, b) == IF a < b THEN a ELSE b

\* the true content, bytes p .. q-1: runs of 10000 equal bytes, the byte
\* changing from run to run (1, 2, 3, ...; never 0)
RECURSIVE ContentFrom(_, _)
ContentFrom(p, q) ==
    IF p >= q THEN Empty
    ELSE LET run == p \div 10000
             e == Min(q, (run + 1) * 10000)
         IN BCat(BRep(1 + (run % 250), e - p), ContentFrom(e, q))

\* the true bytes of piece i of a torrent of piece length pl and total
\* length len
TrueBytes(pl, len, i) == ContentFrom(i * pl, Min((i + 1) * pl, len))

\* Sha1::new(); hasher.update(bytes); hasher.finalize(): a digest, that is a
\* function of the bytes into a finite set (here a polynomial checksum of the
\* runs; byte strings of equal digest exist, as they do for SHA-1)
Digest(bytes) ==
    LET RECURSIVE H(_)
        H(i) == IF i = 0 THEN 7
                ELSE (H(i - 1) * 1009 + bytes[i].b * 65537 + bytes[i].n)
                        % 1000003
    IN H(Len(bytes))

\* a single-file metainfo: info.piece_length, info.pieces (hashes[i + 1] is
\* the hash of piece i), Keys::SingleFile { length }
MkTorrent(pl, n, last) ==
    [pl |-> pl, n |-> n, length |-> (n - 1) * pl + last,
     hashes |-> [i \in 1 .. n |->
                    Digest(TrueBytes(pl, (n - 1) * pl + last, i - 1))]]

\* piece lengths: less than a block, whole blocks, whole blocks and a rest
PieceLengths ==
    {3616, MaxFullBlocks * BLOCK_MAX + 3616}
        \cup {b * BLOCK_MAX : b \in 1 .. MaxFullBlocks}

\* the lengths of the last piece: the whole piece length, or a remainder
LastLengths(pl) == {pl} \cup {r \in {3616, BLOCK_MAX} : r < pl}

Torrents ==
    UNION {{MkTorrent(pl, n, last) : n \in 1 .. MaxPieces,
                                     last \in LastLengths(pl)} :
           pl \in PieceLengths}

TruePiece(t, i) == TrueBytes(t.pl, t.length, i)

\* main.rs: let piece_length = torrent.info.piece_length as u32
PieceLengthCmd(t, i) == t.pl

\* torrent.rs: the piece_length of download_piece
PieceLengthLib(t, i) ==
    IF i < t.n - 1
    THEN t.pl
    ELSE LET rem == t.length % t.pl
         IN IF rem = 0 THEN t.pl ELSE rem

\* the length of a block request
BlockLength(plen, at) ==
    IF plen - at >= BLOCK_MAX THEN BLOCK_MAX ELSE plen - at

\* bincode::serialize(&Request::new(index, begin, length))
RequestPayload(index, begin, length) ==
    BCat(BCat(U32ToBE(index), U32ToBE(begin)), U32ToBE(length))

\* PieceResponse::from_bytes
PieceResponse(b) ==
    [index |-> U32FromBE(BTake(b, 4)),
     begin |-> U32FromBE(BSlice(b, 4, 8)),
     block |-> BDrop(b, 8)]

(***************************************************************************)
(* The connection.                                                         *)
(***************************************************************************)
\* a Framed::next for which a keep-alive frame is an error
FramedNextNoKeepAlive(buf, isClosed) ==
    LET r == decode(buf)
    IN IF r.kind = "none" /\ buf # Empty
       THEN Outcome("err", NoMsg, "keep-alive", r.rest)
       ELSE IF r.kind = "none" /\ isClosed
       THEN Outcome("eof", NoMsg, "", r.rest)
       ELSE r

\* Framed::next: the next frame of the read buffer; when the peer has closed
\* and no frame is left, the stream ends (None) on an empty buffer and is an
\* error on a partial frame
FramedNext(buf, isClosed) ==
    LET r == decode(buf)
    IN IF r.kind = "none" /\ isClosed
       THEN IF r.rest = Empty
            THEN Outcome("eof", NoMsg, "", r.rest)
            ELSE Outcome("err", NoMsg, "bytes remaining on stream", r.rest)
       ELSE r

Failure(kind, how) == [kind |-> kind, how |-> how]

\* a receive that takes a message of any tag for the one wanted
RecvFailAnyTag(r, want) ==
    IF r.kind = "err" THEN Failure(r.why, "err")
    ELSE IF r.kind = "panic" THEN Failure("UnknownMessageTag", "panic")
    ELSE IF r.kind = "eof" THEN Failure("ConnectionClosed", "panic")
    ELSE NoFail

\* peer.next().await.expect(..).context(..)?; assert_eq!(msg.tag, want):
\* how the receive fails, NoFail when the message is the one wanted
RecvFail(r, want) ==
    IF r.kind = "err" THEN Failure(r.why, "err")
    ELSE IF r.kind = "panic" THEN Failure("UnknownMessageTag", "panic")
    ELSE IF r.kind = "eof" THEN Failure("ConnectionClosed", "panic")
    ELSE IF r.msg.tag # want THEN Failure("UnexpectedMessage", "panic")
    ELSE NoFail

\* peer.send(..).await: a write to a connection the peer has closed may fail
SendResults == IF closed THEN BOOLEAN ELSE {TRUE}

Requests == SelectSeq(sent, LAMBDA m : m.tag = Request)

(***************************************************************************)
(* The client: the download-piece command (main.rs) and                    *)
(* Torrent::download_piece, Torrent::download_file (torrent.rs).           *)
(***************************************************************************)
\* the client waits for a message: the only moments it reads the connection
Awaiting == pc \in {"await_bitfield", "await_unchoke", "await_piece"}

\* main.rs 223-230: receive the Bitfield message
RecvBitfield ==
    /\ op = "cmd"
    /\ pc = "await_bitfield"
    /\ LET r == FramedNext(src, closed)
       IN /\ r.kind # "none" \/ r.rest # src
          /\ src' = r.rest
          /\ IF r.kind = "none"
             THEN UNCHANGED << pc, fail >>
             ELSE IF RecvFail(r, Bitfield) # NoFail
             THEN pc' = "failed" /\ fail' = RecvFail(r, Bitfield)
             ELSE pc' = "send_interested" /\ UNCHANGED fail
    /\ log' = IF pc' = "send_interested"
              THEN Append(log, Ev("recv", Bitfield, -1)) ELSE log
    /\ UNCHANGED << codecvars, hs, before, lp, op, torrent, piece, piece_length, start,
                    piece_buf, blocks, sent, closed, output, ret, honest,
                    stage, answered >>

\* main.rs 232-238: send the Interested message
SendInterested ==
    /\ op = "cmd"
    /\ pc = "send_interested"
    /\ encode(Msg(Interested, Empty), Empty).kind = "ok"
    /\ \E ok \in SendResults :
          IF ok
          THEN /\ sent' = Append(sent, Msg(Interested, Empty))
               /\ pc' = "await_unchoke"
               /\ UNCHANGED fail
          ELSE /\ pc' = "failed"
               /\ fail' = Failure("SendFailed", "err")
               /\ UNCHANGED sent
    /\ log' = IF pc' = "await_unchoke"
              THEN Append(log, Ev("send", Interested, -1)) ELSE log
    /\ UNCHANGED << src, codecvars, hs, before, lp,
                    op, torrent, piece, piece_length, start,
                    piece_buf, blocks, closed, output, ret, honest, stage,
                    answered >>

\* main.rs 240-254: receive the Unchoke message, set up the piece
RecvUnchoke ==
    /\ op = "cmd"
    /\ pc = "await_unchoke"
    /\ LET r == FramedNext(src, closed)
       IN /\ r.kind # "none" \/ r.rest # src
          /\ src' = r.rest
          /\ IF r.kind = "none"
             THEN UNCHANGED << pc, fail, piece_length >>
             ELSE IF RecvFail(r, Unchoke) # NoFail
             THEN /\ pc' = "failed"
                  /\ fail' = RecvFail(r, Unchoke)
                  /\ UNCHANGED piece_length
             ELSE /\ pc' = "loop"
                  /\ piece_length' = PieceLengthCmd(torrent, piece)
                  /\ UNCHANGED fail
    /\ log' = IF pc' = "loop"
              THEN Append(log, Ev("recv", Unchoke, -1)) ELSE log
    /\ UNCHANGED << codecvars, hs, before, lp,
                    op, torrent, piece, start, piece_buf, blocks,
                    sent, closed, output, ret, honest, stage, answered >>

\* a download_file that starts with piece 1
OpenFileSkipsFirst ==
    /\ op = "file"
    /\ pc = "open"
    /\ piece' = 1
    /\ pc' = IF torrent.n > 0 THEN "begin" ELSE "done"
    /\ UNCHANGED << src, codecvars, hs, before, lp, log,
                    op, torrent, piece_length, start,
                    piece_buf, blocks, sent, closed, output, ret, fail,
                    honest, stage, answered >>

\* torrent.rs 169-176: download_file opens the output file (append, create)
\* and starts with piece 0
OpenFile ==
    /\ op = "file"
    /\ pc = "open"
    /\ piece' = 0
    /\ pc' = IF torrent.n > 0 THEN "begin" ELSE "done"
    /\ UNCHANGED << src, codecvars, hs, before, lp, log, op, torrent, piece_length, start,
                    piece_buf, blocks, sent, closed, output, ret, fail,
                    honest, stage, answered >>

\* torrent.rs 78-99: download_piece computes the piece length and starts
\* with an empty buffer
BeginPiece ==
    /\ op \in {"piece", "file"}
    /\ pc = "begin"
    /\ piece_length' = PieceLengthLib(torrent, piece)
    /\ piece_buf' = Empty
    /\ blocks' = << >>
    /\ start' = 0
    /\ pc' = "loop"
    /\ UNCHANGED << src, codecvars, hs, before, lp, log,
                    op, torrent, piece, sent, closed, output,
                    ret, fail, honest, stage, answered >>

\* a loop that sends the Request for the next block twice before it waits
SendRequestTwice ==
    /\ pc = "loop"
    /\ start < piece_length
    /\ LET l == BlockLength(piece_length, start)
           m == Msg(Request, RequestPayload(piece, start, l))
       IN /\ encode(m, Empty).kind = "ok"
          /\ \E ok \in SendResults :
                IF ok
                THEN /\ sent' = Append(Append(sent, m), m)
                     /\ pc' = "await_piece"
                     /\ UNCHANGED fail
                ELSE /\ pc' = "failed"
                     /\ fail' = Failure("SendFailed", "err")
                     /\ UNCHANGED sent
    /\ log' = IF pc' = "await_piece"
              THEN Append(log, Ev("send", Request, piece)) ELSE log
    /\ UNCHANGED << src, codecvars, hs, before, lp,
                    op, torrent, piece, piece_length, start,
                    piece_buf, blocks, closed, output, ret, honest, stage,
                    answered >>

\* main.rs 260-275, torrent.rs 105-122: send the Request for the next block
SendRequest ==
    /\ pc = "loop"
    /\ start < piece_length
    /\ LET l == BlockLength(piece_length, start)
           m == Msg(Request, RequestPayload(piece, start, l))
       IN /\ encode(m, Empty).kind = "ok"
          /\ \E ok \in SendResults :
                IF ok
                THEN /\ sent' = Append(sent, m)
                     /\ pc' = "await_piece"
                     /\ UNCHANGED fail
                ELSE /\ pc' = "failed"
                     /\ fail' = Failure("SendFailed", "err")
                     /\ UNCHANGED sent
    /\ log' = IF pc' = "await_piece"
              THEN Append(log, Ev("send", Request, piece)) ELSE log
    /\ UNCHANGED << src, codecvars, hs, before, lp,
                    op, torrent, piece, piece_length, start,
                    piece_buf, blocks, closed, output, ret, honest, stage,
                    answered >>

\* a receive that checks the index of the Piece message and not its offset
RecvPieceIndexOnly ==
    /\ pc = "await_piece"
    /\ LET r == FramedNext(src, closed)
           resp == PieceResponse(r.msg.payload)
           sum == start + BLOCK_MAX
       IN /\ r.kind # "none" \/ r.rest # src
          /\ src' = r.rest
          /\ IF r.kind = "none"
             THEN UNCHANGED << pc, fail, piece_buf, blocks, start >>
             ELSE IF RecvFail(r, Piece) # NoFail
             THEN /\ pc' = "failed"
                  /\ fail' = RecvFail(r, Piece)
                  /\ UNCHANGED << piece_buf, blocks, start >>
             ELSE IF BLen(r.msg.payload) < 8
             THEN /\ pc' = "failed"
                  /\ fail' = Failure("MalformedPiece", "panic")
                  /\ UNCHANGED << piece_buf, blocks, start >>
             ELSE IF resp.index # piece
             THEN /\ pc' = "failed"
                  /\ fail' = Failure("ResponseMismatch", "panic")
                  /\ UNCHANGED << piece_buf, blocks, start >>
             ELSE /\ piece_buf' = BCat(piece_buf, resp.block)
                  /\ blocks' = Append(blocks, resp.block)
                  /\ start' = sum
                  /\ pc' = "loop"
                  /\ UNCHANGED fail
    /\ log' = IF pc' = "loop"
              THEN Append(log, Ev("recv", Piece, piece)) ELSE log
    /\ UNCHANGED << codecvars, hs, before, lp, op, torrent, piece, piece_length, sent,
                    closed, output, ret, honest, stage, answered >>

\* main.rs 277-301, torrent.rs 124-148: receive the Piece message, check it
\* against the request, append its block, advance start
RecvPiece ==
    /\ pc = "await_piece"
    /\ LET r == FramedNext(src, closed)
           resp == PieceResponse(r.msg.payload)
           sum == start + BLOCK_MAX
       IN /\ r.kind # "none" \/ r.rest # src
          /\ src' = r.rest
          /\ IF r.kind = "none"
             THEN UNCHANGED << pc, fail, piece_buf, blocks, start >>
             ELSE IF RecvFail(r, Piece) # NoFail
             THEN /\ pc' = "failed"
                  /\ fail' = RecvFail(r, Piece)
                  /\ UNCHANGED << piece_buf, blocks, start >>
             ELSE IF BLen(r.msg.payload) < 8
             THEN /\ pc' = "failed"
                  /\ fail' = Failure("MalformedPiece", "panic")
                  /\ UNCHANGED << piece_buf, blocks, start >>
             ELSE IF resp.index # piece \/ resp.begin # start
             THEN /\ pc' = "failed"
                  /\ fail' = Failure("ResponseMismatch", "panic")
                  /\ UNCHANGED << piece_buf, blocks, start >>
             ELSE /\ piece_buf' = BCat(piece_buf, resp.block)
                  /\ blocks' = Append(blocks, resp.block)
                  /\ start' = sum
                  /\ pc' = "loop"
                  /\ UNCHANGED fail
    /\ log' = IF pc' = "loop"
              THEN Append(log, Ev("recv", Piece, piece)) ELSE log
    /\ UNCHANGED << codecvars, hs, before, lp, op, torrent, piece, piece_length, sent,
                    closed, output, ret, honest, stage, answered >>

\* an end of the loop that checks the length of the buffer and not its hash
FinishWithoutChecksum ==
    /\ pc = "loop"
    /\ start >= piece_length
    /\ IF BLen(piece_buf) # piece_length
       THEN /\ pc' = "failed"
            /\ fail' = Failure("LengthMismatch", "panic")
            /\ UNCHANGED << output, ret, piece >>
       ELSE IF op = "cmd"
       THEN /\ output' = piece_buf
            /\ pc' = "done"
            /\ UNCHANGED << fail, ret, piece >>
       ELSE IF op = "piece"
       THEN /\ ret' = [some |-> TRUE, bytes |-> piece_buf]
            /\ pc' = "done"
            /\ UNCHANGED << fail, output, piece >>
       ELSE /\ ret' = [some |-> TRUE, bytes |-> piece_buf]
            /\ output' = BCat(output, piece_buf)
            /\ piece' = piece + 1
            /\ pc' = IF piece + 1 < torrent.n THEN "begin" ELSE "done"
            /\ UNCHANGED fail
    /\ log' = IF pc' = "failed" THEN log
              ELSE Append(log, Ev(IF op = "piece" THEN "return" ELSE "write",
                                  -1, piece))
    /\ UNCHANGED << src, codecvars, hs, before, lp, op, torrent, piece_length, start,
                    piece_buf, blocks, sent, closed, honest, stage,
                    answered >>

\* main.rs 306-317, torrent.rs 153-161 and 177-182: the loop has ended;
\* check the length and the hash of the buffer, then write or return it
Finish ==
    /\ pc = "loop"
    /\ start >= piece_length
    /\ IF BLen(piece_buf) # piece_length
       THEN /\ pc' = "failed"
            /\ fail' = Failure("LengthMismatch", "panic")
            /\ UNCHANGED << output, ret, piece >>
       ELSE IF Digest(piece_buf) # torrent.hashes[piece + 1]
       THEN /\ pc' = "failed"
            /\ fail' = Failure("ChecksumMismatch", "panic")
            /\ UNCHANGED << output, ret, piece >>
       ELSE IF op = "cmd"
       THEN \* tokio::fs::write(&output, piece_buf)
            /\ output' = piece_buf
            /\ pc' = "done"
            /\ UNCHANGED << fail, ret, piece >>
       ELSE IF op = "piece"
       THEN \* Ok(piece_buf)
            /\ ret' = [some |-> TRUE, bytes |-> piece_buf]
            /\ pc' = "done"
            /\ UNCHANGED << fail, output, piece >>
       ELSE \* file.write_all(&piece_buf), then the next piece_index
            /\ ret' = [some |-> TRUE, bytes |-> piece_buf]
            /\ output' = BCat(output, piece_buf)
            /\ piece' = piece + 1
            /\ pc' = IF piece + 1 < torrent.n THEN "begin" ELSE "done"
            /\ UNCHANGED fail
    /\ log' = IF pc' = "failed" THEN log
              ELSE Append(log, Ev(IF op = "piece" THEN "return" ELSE "write",
                                  -1, piece))
    /\ UNCHANGED << src, codecvars, hs, before, lp, op, torrent, piece_length, start,
                    piece_buf, blocks, sent, closed, honest, stage,
                    answered >>

(***************************************************************************)
(* The peer: it appends whole frames to the client's read buffer, or       *)
(* closes the connection.  A frame is taken at the moment the client waits *)
(* for one and has read all that came before; the client reads the buffer  *)
(* at no other moment, so a frame that arrived earlier is the same to it.  *)
(***************************************************************************)
Frame(m) == encode(m, Empty).rest

\* the Request the peer answers next
Pending == PieceResponse(Requests[answered + 1].payload)

PendingLength == U32FromBE(BSlice(Requests[answered + 1].payload, 8, 12))

\* the requested bytes of the true content (those of them that exist)
TrueBlock ==
    BSlice(TruePiece(torrent, Pending.index), Pending.begin,
           Pending.begin + PendingLength)

PiecePayload(index, begin, block) ==
    BCat(BCat(U32ToBE(index), U32ToBE(begin)), block)

\* frames the peer may send at any moment
PlainFrames ==
    {[kind |-> "keepalive", bytes |-> BRep(0, 4)],
     [kind |-> "bitfield", bytes |-> Frame(Msg(Bitfield, BRep(255, 1)))],
     [kind |-> "unchoke", bytes |-> Frame(Msg(Unchoke, Empty))],
     [kind |-> "choke", bytes |-> Frame(Msg(Choke, Empty))],
     [kind |-> "have", bytes |-> Frame(Msg(Have, U32ToBE(0)))],
     [kind |-> "unknown", bytes |-> BLit(<< 0, 0, 0, 1, 9 >>)],
     [kind |-> "oversize", bytes |-> BLit(<< 0, 1, 0, 1, 0 >>)]}

\* Piece messages in answer to the pending Request: the true block; a block
\* of the same length and other bytes; a block one byte short; the
\* bytes from the end of what was sent so far to the end of the requested
\* range; another index or offset; a payload too short to hold both
AnswerFrames ==
    LET i == Pending.index
        o == Pending.begin
        soFar == BLen(piece_buf)
    IN {[kind |-> "true",
         bytes |-> Frame(Msg(Piece, PiecePayload(i, o, TrueBlock)))],
        [kind |-> "corrupt",
         bytes |-> Frame(Msg(Piece,
                     PiecePayload(i, o, BRep(0, BLen(TrueBlock)))))],
        [kind |-> "short",
         bytes |-> Frame(Msg(Piece,
                     PiecePayload(i, o,
                        BTake(TrueBlock, BLen(TrueBlock) - 1))))],
        [kind |-> "catchup",
         bytes |-> Frame(Msg(Piece,
                     PiecePayload(i, o,
                        BSlice(TruePiece(torrent, i), soFar,
                               o + PendingLength))))],
        [kind |-> "badindex",
         bytes |-> Frame(Msg(Piece, PiecePayload(i + 1, o, TrueBlock)))],
        [kind |-> "badbegin",
         bytes |-> Frame(Msg(Piece, PiecePayload(i, o + 1, TrueBlock)))],
        [kind |-> "malformed",
         bytes |-> Frame(Msg(Piece, U32ToBE(i)))]}

\* the frame is the next one of the script: Bitfield, Unchoke, then one
\* exactly matching Piece per Request
Scripted(f) ==
    \/ f.kind = "bitfield" /\ stage = 0
    \/ f.kind = "unchoke" /\ stage = 1
    \/ f.kind = "true" /\ stage = 2

\* the peer sends a frame that answers no Request
PeerSend ==
    /\ Awaiting
    /\ ~closed
    /\ src = Empty
    /\ \E f \in PlainFrames :
          /\ src' = BCat(src, f.bytes)
          /\ honest' = (honest /\ Scripted(f))
          /\ stage' = IF Scripted(f) THEN stage + 1 ELSE stage
    /\ UNCHANGED << codecvars, hs, before, lp, log,
                    op, torrent, piece, pc, piece_length, start,
                    piece_buf, blocks, sent, closed, output, ret, fail,
                    answered >>

\* the peer answers the pending Request with a Piece message
PeerAnswer ==
    /\ Awaiting
    /\ ~closed
    /\ src = Empty
    /\ answered < Len(Requests)
    /\ \E f \in AnswerFrames :
          /\ src' = BCat(src, f.bytes)
          /\ honest' = (honest /\ Scripted(f))
    /\ answered' = answered + 1
    /\ UNCHANGED << codecvars, hs, before, lp, log,
                    op, torrent, piece, pc, piece_length, start,
                    piece_buf, blocks, sent, closed, output, ret, fail,
                    stage >>

\* the peer closes the connection
PeerClose ==
    /\ Awaiting
    /\ ~closed
    /\ closed' = TRUE
    /\ honest' = FALSE
    /\ UNCHANGED << src, codecvars, hs, before, lp, log,
                    op, torrent, piece, pc, piece_length,
                    start, piece_buf, blocks, sent, output, ret, fail, stage,
                    answered >>

(***************************************************************************)
(* The download specification.  The connection is past the handshake.  The *)
(* command runs the whole exchange itself; download_piece and              *)
(* download_file are given the connection by their caller, who has run the *)
(* Bitfield/Interested/Unchoke exchange on it (stage 2) or has not         *)
(* (stage 0).                                                              *)
(***************************************************************************)
Init ==
    /\ src = Empty
    /\ fed = Empty
    /\ got = << >>
    /\ hist = << >>
    /\ nraw = 0
    /\ nenc = 0
    /\ halted = "no"
    /\ op \in {"cmd", "piece", "file"}
    /\ torrent \in Torrents
    /\ piece \in 0 .. torrent.n - 1
    /\ op = "file" => piece = 0
    /\ pc = IF op = "cmd" THEN "await_bitfield"
            ELSE IF op = "piece" THEN "begin" ELSE "open"
    /\ piece_length = 0
    /\ start = 0
    /\ piece_buf = Empty
    /\ blocks = << >>
    /\ sent = << >>
    /\ closed = FALSE
    /\ output \in {Empty, BLit(<< 7 >>)}
    /\ op = "piece" => output = Empty
    /\ ret = NoRet
    /\ fail = NoFail
    /\ honest = TRUE
    /\ stage \in {0, 2}
    /\ op = "cmd" => stage = 0
    /\ answered = 0
    /\ log = << >>
    /\ hs = NoHandshake
    /\ lp = NoLoop
    /\ before = output

Next ==
    \/ RecvBitfield
    \/ SendInterested
    \/ RecvUnchoke
    \/ OpenFile
    \/ BeginPiece
    \/ SendRequest
    \/ RecvPiece
    \/ Finish
    \/ PeerSend
    \/ PeerAnswer
    \/ PeerClose

Spec == Init /\ [][Next]_vars

(***************************************************************************)
(* The handshake (peer.rs, Handshake; main.rs, the handshake command and   *)
(* the start of the download-piece command).                               *)
(***************************************************************************)
\* b"BitTorrent protocol"
Label ==
    BLit(<< 66, 105, 116, 84, 111, 114, 114, 101, 110, 116, 32,
            112, 114, 111, 116, 111, 99, 111, 108 >>)

\* b"00112233445566778899"
MyPeerId ==
    BLit(<< 48, 48, 49, 49, 50, 50, 51, 51, 52, 52,
            53, 53, 54, 54, 55, 55, 56, 56, 57, 57 >>)

\* Handshake::new
HandshakeNew(info_hash, peer_id) ==
    [length |-> 19, bittorrent |-> Label, reserved |-> BRep(0, 8),
     info_hash |-> info_hash, peer_id |-> peer_id]

\* a serialization that writes the peer id before the info hash
SerializePeerIdFirst(h) ==
    BCat(BCat(BCat(BCat(BRep(h.length, 1), h.bittorrent), h.reserved),
              h.peer_id), h.info_hash)

\* bincode::serialize(&handshake): the fields in the order of the struct, a
\* u8 as one byte, a byte array as its bytes
Serialize(h) ==
    BCat(BCat(BCat(BCat(BRep(h.length, 1), h.bittorrent), h.reserved),
              h.info_hash), h.peer_id)

\* bincode::deserialize::<Handshake>(&buf) of a buffer of 68 bytes or more:
\* the fields are read from the front, what follows them is left alone
Deserialize(buf) ==
    [length |-> BAt(buf, 0), bittorrent |-> BSlice(buf, 1, 20),
     reserved |-> BSlice(buf, 20, 28), info_hash |-> BSlice(buf, 28, 48),
     peer_id |-> BSlice(buf, 48, 68)]

\* 20-byte fingerprints and identities
Hashes20 == {BRep(0, 20), BRep(48, 20), BCat(BRep(19, 1), BRep(200, 19))}

PeerIds == {MyPeerId, BCat(BRep(45, 8), BRep(0, 12))}

\* what the peer sends in reply: the handshake of a peer (any fingerprint,
\* any identity), alone or with a Bitfield frame behind it, or 68 bytes
\* with another length byte or another label
Replies ==
    LET good == {HandshakeNew(f, i) : f \in Hashes20, i \in PeerIds}
    IN {[kind |-> "good", h |-> h, bytes |-> Serialize(h)] : h \in good}
       \cup {[kind |-> "framed", h |-> h,
              bytes |-> BCat(Serialize(h),
                             BLit(<< 0, 0, 0, 2, 5, 255 >>))] : h \in good}
       \cup {[kind |-> "length", h |-> [h EXCEPT !.length = 18],
              bytes |-> Serialize([h EXCEPT !.length = 18])] : h \in good}
       \cup {[kind |-> "label", h |-> [h EXCEPT !.bittorrent = BRep(66, 19)],
              bytes |-> Serialize([h EXCEPT !.bittorrent = BRep(66, 19)])] :
             h \in good}

\* the sizes of the parts in which the transport delivers the reply
ChunkSizes == {20, 48}

\* what a handshake step leaves alone
hsrest ==
    << src, codecvars, torrent, piece, piece_length, start, piece_buf,
       blocks, sent, output, ret, honest, stage, answered, log, before,
       lp >>

InitHandshake ==
    /\ src = Empty
    /\ fed = Empty
    /\ got = << >>
    /\ hist = << >>
    /\ nraw = 0
    /\ nenc = 0
    /\ halted = "no"
    /\ op \in {"handshake", "cmd"}
    /\ torrent = NoTorrent
    /\ piece = 0
    /\ pc = "hs_write"
    /\ piece_length = 0
    /\ start = 0
    /\ piece_buf = Empty
    /\ blocks = << >>
    /\ sent = << >>
    /\ closed = FALSE
    /\ output = Empty
    /\ ret = NoRet
    /\ fail = NoFail
    /\ honest = TRUE
    /\ stage = 0
    /\ answered = 0
    /\ log = << >>
    /\ before = Empty
    /\ lp = NoLoop
    /\ \E f \in Hashes20, r \in Replies :
          hs = [NoHandshake EXCEPT !.info_hash = f, !.reply = r,
                                   !.wire = r.bytes]

\* main.rs 140-143, 206-209: peer.write_all(&bincode::serialize(&handshake))
HsWrite ==
    /\ pc = "hs_write"
    /\ hs' = [hs EXCEPT !.mine = Serialize(HandshakeNew(hs.info_hash,
                                                        MyPeerId))]
    /\ pc' = "hs_read"
    /\ UNCHANGED << hsrest, op, closed, fail >>

\* the transport delivers the next part of the peer's reply
HsArrive ==
    /\ pc = "hs_read"
    /\ ~closed
    /\ \E k \in ChunkSizes \cup {BLen(hs.wire)} :
          /\ 0 < k /\ k <= BLen(hs.wire)
          /\ hs' = [hs EXCEPT !.avail = BCat(hs.avail, BTake(hs.wire, k)),
                              !.wire = BDrop(hs.wire, k)]
    /\ UNCHANGED << hsrest, op, pc, closed, fail >>

\* the peer closes the connection; what it had not sent is never delivered
HsClose ==
    /\ pc = "hs_read"
    /\ ~closed
    /\ closed' = TRUE
    /\ hs' = [hs EXCEPT !.wire = Empty]
    /\ UNCHANGED << hsrest, op, pc, fail >>

\* main.rs 145-146 (the handshake command): let mut buf = [0; 100000];
\* peer.read(&mut buf).await?: one read, which returns what has arrived
HsRead ==
    /\ op = "handshake"
    /\ pc = "hs_read"
    /\ hs.avail # Empty \/ closed
    /\ hs' = [hs EXCEPT !.buf = BCat(hs.avail,
                                     BRep(0, 100000 - BLen(hs.avail))),
                        !.nread = BLen(hs.avail),
                        !.avail = Empty]
    /\ pc' = "hs_decode"
    /\ UNCHANGED << hsrest, op, closed, fail >>

\* main.rs 211-212 (the download-piece command): let mut buf = [0; 68];
\* peer.read_exact(&mut buf).await?: reads until the 68 bytes are there;
\* the end of the stream before that is an Err
HsReadExact ==
    /\ op = "cmd"
    /\ pc = "hs_read"
    /\ hs.avail # Empty \/ closed
    /\ LET n == Min(BLen(hs.avail), 68 - hs.nread)
       IN IF n = 0
          THEN /\ pc' = "failed"
               /\ fail' = Failure("ConnectionClosed", "err")
               /\ UNCHANGED hs
          ELSE /\ hs' = [hs EXCEPT !.buf = BCat(hs.buf, BTake(hs.avail, n)),
                                   !.nread = hs.nread + n,
                                   !.avail = BDrop(hs.avail, n)]
               /\ pc' = IF hs.nread + n = 68 THEN "hs_decode" ELSE "hs_read"
               /\ UNCHANGED fail
    /\ UNCHANGED << hsrest, op, closed >>

\* main.rs 148-152, 214-221: bincode::deserialize(&buf).unwrap(), the two
\* assert_eq, and for the download-piece command Framed::new
HsDecode ==
    /\ pc = "hs_decode"
    /\ LET h == Deserialize(hs.buf)
       IN /\ hs' = [hs EXCEPT !.decoded = h]
          /\ IF h.length # 19 \/ h.bittorrent # Label
             THEN /\ pc' = "failed"
                  /\ fail' = Failure("ProtocolMismatch", "panic")
             ELSE /\ pc' = IF op = "cmd" THEN "await_bitfield" ELSE "done"
                  /\ UNCHANGED fail
    /\ UNCHANGED << hsrest, op, closed >>

NextHandshake ==
    \/ HsWrite
    \/ HsArrive
    \/ HsClose
    \/ HsRead
    \/ HsReadExact
    \/ HsDecode

SpecHandshake == InitHandshake /\ [][NextHandshake]_vars

(***************************************************************************)
(* The block loop of download_piece on piece lengths of any size.  The     *)
(* lengths and offsets are kept as blocks of BLOCK_MAX bytes and a rest,   *)
(* the u32 locals wrap at W blocks.  The peer is responsive: it answers    *)
(* every Request with the requested block.  A run enters the loop at its   *)
(* start, or after the blocks before the last MaxSeen - 1 were received.   *)
(* An overflow of start += BLOCK_MAX panics in a build with overflow       *)
(* checks and wraps in a build without.                                    *)
(***************************************************************************)
\* iterations of the loop followed in one run
MaxSeen == 4

\* x as u32: the bits from 2^32 up are dropped
AsU32(x) == Wide(0, x.hi, x.lo)

\* a < b
LtW(a, b) ==
    \/ a.top < b.top
    \/ a.top = b.top /\ a.hi < b.hi
    \/ a.top = b.top /\ a.hi = b.hi /\ a.lo < b.lo

\* a - b on u32, for a >= b
SubU32(a, b) ==
    IF a.lo >= b.lo
    THEN Wide(0, a.hi - b.hi, a.lo - b.lo)
    ELSE Wide(0, a.hi - b.hi - 1, a.lo + BLOCK_MAX - b.lo)

\* a + b, of any width
AddW(a, b) ==
    LET lo == a.lo + b.lo
        hi == a.hi + b.hi + lo \div BLOCK_MAX
    IN Wide(a.top + b.top + hi \div W, hi % W, lo % BLOCK_MAX)

BlockMaxW == Wide(0, 1, 0)

\* ceil(x / BLOCK_MAX) for x < 2^32
Blocks(x) == x.hi + (IF x.lo > 0 THEN 1 ELSE 0)

\* the piece lengths of the metainfo (usize): 1, around one block, three
\* blocks, the last values of the u32 range, and two beyond it
LoopLengths ==
    {Wide(0, 0, 1), Wide(0, 0, BLOCK_MAX - 1), Wide(0, 1, 0), Wide(0, 1, 1),
     Wide(0, 3, 0), Wide(0, W - 2, BLOCK_MAX - 1), Wide(0, W - 1, 0),
     Wide(0, W - 1, 1), Wide(0, W - 1, BLOCK_MAX - 1),
     Wide(1, 0, 0), Wide(1, 1, 0)}

InitLoop ==
    /\ src = Empty
    /\ fed = Empty
    /\ got = << >>
    /\ hist = << >>
    /\ nraw = 0
    /\ nenc = 0
    /\ halted = "no"
    /\ Idle
    /\ hs = NoHandshake
    /\ \E b \in {"debug", "release"}, g \in LoopLengths :
          LET pl == AsU32(g)
          IN \E k \in {0, Blocks(pl) - Min(Blocks(pl), MaxSeen - 1)} :
                lp = [NoLoop EXCEPT !.build = b, !.given = g,
                                    !.piece_length = pl,
                                    !.start = Wide(0, k, 0),
                                    !.iter = k, !.pc = "loop"]

\* torrent.rs 105-122: the loop goes on; the next Request is made and sent
LoopRequest ==
    /\ lp.pc = "loop"
    /\ lp.seen < MaxSeen
    /\ LtW(lp.start, lp.piece_length)
    /\ LET rem == SubU32(lp.piece_length, lp.start)
           l == IF ~LtW(rem, BlockMaxW) THEN BlockMaxW ELSE rem
       IN lp' = [lp EXCEPT !.req = [begin |-> lp.start, length |-> l],
                           !.pc = "await"]
    /\ UNCHANGED << src, codecvars, dlvars, hs >>

\* torrent.rs 125-148: the block arrives and is appended;
\* start += BLOCK_MAX
LoopAdvance ==
    /\ lp.pc = "await"
    /\ LET sum == AddW(lp.start, BlockMaxW)
       IN IF sum.top = 0
          THEN lp' = [lp EXCEPT !.start = sum, !.iter = @ + 1,
                                !.seen = @ + 1, !.pc = "loop"]
          ELSE IF lp.build = "debug"
          THEN lp' = [lp EXCEPT !.iter = @ + 1, !.seen = @ + 1,
                                !.pc = "panic"]
          ELSE lp' = [lp EXCEPT !.start = AsU32(sum), !.wrapped = TRUE,
                                !.iter = @ + 1, !.seen = @ + 1,
                                !.pc = "loop"]
    /\ UNCHANGED << src, codecvars, dlvars, hs >>

\* torrent.rs 105: start < piece_length is false, the loop ends
LoopExit ==
    /\ lp.pc = "loop"
    /\ ~LtW(lp.start, lp.piece_length)
    /\ lp' = [lp EXCEPT !.pc = "exit"]
    /\ UNCHANGED << src, codecvars, dlvars, hs >>

NextLoop == LoopRequest \/ LoopAdvance \/ LoopExit

SpecLoop == InitLoop /\ [][NextLoop]_vars

(***************************************************************************)
(* Properties of the codec.                                                *)
(***************************************************************************)
\* the most recent call, and the one before it
LastCall == hist[Len(hist)]

Decoded == Len(hist) > 0 /\ LastCall.op = "decode"

\* the buffer a decode call was given, without the keep-alives at its front
Body(pre) == BDrop(pre, 4 * KeepAlives(pre))

\* the length prefix at the front of a buffer of at least 4 bytes
Prefix(buf) == U32FromBE(BTake(buf, 4))

\* buf is exactly one complete frame with a known tag
IsValidFrame(buf) ==
    /\ BLen(buf) >= 5
    /\ Prefix(buf) >= 1
    /\ Prefix(buf) <= MAX
    /\ BLen(buf) = 4 + Prefix(buf)
    /\ BAt(buf, 4) \in KnownTags

\* every message of a buffer decoded in one go: decode called until it
\* returns no message; kind is how that last call ended
RECURSIVE DecodeAll(_)
DecodeAll(buf) ==
    LET r == decode(buf)
    IN IF r.kind = "msg"
       THEN LET w == DecodeAll(r.rest)
            IN [msgs |-> << r.msg >> \o w.msgs, kind |-> w.kind,
                rest |-> w.rest]
       ELSE [msgs |-> << >>, kind |-> r.kind, rest |-> r.rest]

\* C2: a message with a known tag and payload length + 1 <= MAX, encoded into
\* an empty buffer and decoded from it, comes back with the same tag and
\* payload, and the buffer is left empty.
C2_RoundTrip ==
    ( /\ Len(hist) = 2
      /\ hist[1].op = "encode"
      /\ hist[1].pre = Empty
      /\ hist[1].item.tag \in KnownTags
      /\ BLen(hist[1].item.payload) + 1 <= MAX
      /\ hist[2].op = "decode" )
    => /\ hist[1].res.kind = "ok"
       /\ hist[2].res.kind = "msg"
       /\ hist[2].res.msg = hist[1].item
       /\ src = Empty

\* a message with the largest payload the ceiling allows has made the trip
C2_Witness ==
    /\ Len(hist) = 2
    /\ hist[1].op = "encode"
    /\ hist[1].pre = Empty
    /\ BLen(hist[1].item.payload) + 1 = MAX
    /\ hist[2].op = "decode"
    /\ hist[2].res.kind = "msg"

\* C3: however the bytes of a stream reach the buffer (one byte at a time,
\* with decode called in between), the messages returned so far followed by
\* those still in the buffer are the messages of the whole stream decoded in
\* one go, with the same end (need-more-data, error or panic) and the same
\* bytes left over; need-more-data loses no byte and ends nothing.
C3_StreamEquivalence ==
    LET whole == DecodeAll(fed)
        here == DecodeAll(src)
    IN /\ halted = "no"
          => /\ got \o here.msgs = whole.msgs
             /\ here.kind = whole.kind
             /\ here.rest = whole.rest
       /\ halted # "no"
          => /\ got = whole.msgs
             /\ halted = whole.kind
             /\ src = whole.rest
       /\ (Decoded /\ LastCall.res.kind = "none")
          => /\ halted = "no"
             /\ BLen(LastCall.pre) - BLen(src)
                  = 4 * KeepAlives(LastCall.pre)

\* a stream fed byte by byte, a keep-alive and then a frame, has produced its
\* message and decode has then reported need-more-data
C3_Witness ==
    /\ nenc = 0
    /\ nraw = MaxRaw
    /\ KeepAlives(fed) >= 1
    /\ Len(got) = 1
    /\ Decoded
    /\ LastCall.res.kind = "none"

\* C4: decode given k >= 1 keep-alive frames followed by one complete valid
\* frame returns that frame; given keep-alive frames only it reports
\* need-more-data; either way the keep-alive bytes are gone from the buffer,
\* and no message is ever returned for a zero-length frame.
C4_KeepAliveTransparent ==
    (Decoded /\ KeepAlives(LastCall.pre) >= 1)
    => LET body == Body(LastCall.pre)
           res == LastCall.res
       IN /\ IsValidFrame(body)
             => /\ res.kind = "msg"
                /\ res.msg = Msg(BAt(body, 4), BDrop(body, 5))
                /\ src = Empty
          /\ body = Empty => (res.kind = "none" /\ src = Empty)
          /\ BLen(src) <= BLen(body)
          /\ res.kind = "msg" => res.msg.tag \in KnownTags

\* decode was given two keep-alive frames followed by a valid frame
C4_Witness ==
    /\ Decoded
    /\ KeepAlives(LastCall.pre) = 2
    /\ IsValidFrame(Body(LastCall.pre))
    /\ LastCall.res.kind = "msg"

C6_UnknownTagIsError ==
    (Decoded
       /\ BLen(Body(LastCall.pre)) >= 5
       /\ Prefix(Body(LastCall.pre)) >= 1
       /\ Prefix(Body(LastCall.pre)) <= MAX
       /\ BLen(Body(LastCall.pre)) >= 4 + Prefix(Body(LastCall.pre))
       /\ BAt(Body(LastCall.pre), 4) \notin KnownTags)
    => /\ LastCall.res.kind = "err"
       /\ LastCall.res.why = "UnknownMessageTag"
       /\ src = Body(LastCall.pre)

\* C22 (decoder consumption): a decode call that returns a message for a
\* frame with length prefix L removes the keep-alive frames before it and
\* the 4 + L bytes of the frame, and leaves the bytes after the frame as
\* they were; a call that returns need-more-data removes keep-alive frames
\* only, no byte of the incomplete frame.
C22_DecoderConsumption ==
    Decoded =>
       LET pre == LastCall.pre
           body == Body(pre)
           res == LastCall.res
       IN /\ res.kind = "msg" =>
               /\ BLen(body) >= 4 + Prefix(body)
               /\ BLen(pre) - BLen(src) =
                     4 * KeepAlives(pre) + 4 + Prefix(body)
               /\ src = BDrop(body, 4 + Prefix(body))
               /\ BCat(BTake(pre, BLen(pre) - BLen(src)), src) = pre
          /\ res.kind = "none" =>
               /\ src = body
               /\ BLen(body) < 5 \/ BLen(body) < 4 + Prefix(body)

\* decode returned a message from a buffer that held bytes after the frame
C22_Witness ==
    /\ Decoded
    /\ LastCall.res.kind = "msg"
    /\ src # Empty
    /\ BLen(LastCall.pre) = 4 + Prefix(LastCall.pre) + BLen(src)

(***************************************************************************)
(* Properties of the download.                                             *)
(***************************************************************************)
\* the length of piece i of the content: the piece length, and for the last
\* piece what is left of the content
EffectiveLength(t, i) ==
    IF i < t.n - 1 \/ t.length % t.pl = 0 THEN t.pl ELSE t.length % t.pl

RECURSIVE Concat(_)
Concat(bs) == IF bs = << >> THEN Empty
              ELSE BCat(Concat(SubSeq(bs, 1, Len(bs) - 1)), bs[Len(bs)])

\* the step emits a piece: it returns it or writes it to the output
Emits == output' # output \/ ret' # ret

\* the Requests sent for piece i, as (index, begin, length)
RequestsFor(i) ==
    LET parsed == [k \in 1 .. Len(Requests) |->
                      [index |-> U32FromBE(BTake(Requests[k].payload, 4)),
                       begin |-> U32FromBE(BSlice(Requests[k].payload, 4, 8)),
                       length |->
                           U32FromBE(BSlice(Requests[k].payload, 8, 12))]]
    IN SelectSeq(parsed, LAMBDA q : q.index = i)

\* all the blocks of piece i have been received and the piece was accepted
Completed(i) ==
    \/ op \in {"cmd", "piece"} /\ pc = "done" /\ i = piece
    \/ op = "file" /\ i < piece

\* C1 (checksum gate): a step returns or writes a piece only at the end of
\* the loop, with a buffer of the expected length (the one the operation
\* works with, which is also the length of the piece in the content) whose
\* digest is the expected hash of the piece, and what it returns or writes
\* is the concatenation of the received blocks in the order of the
\* requests; when the loop ends with a buffer whose digest is not the
\* expected one, the operation fails in the verification and returns and
\* writes nothing, the failure being the hash comparison when the buffer
\* has the expected length.
C1_ChecksumGate ==
    [][/\ Emits =>
            /\ pc = "loop" /\ start >= piece_length
            /\ BLen(piece_buf) = piece_length
            /\ BLen(piece_buf) = EffectiveLength(torrent, piece)
            /\ Digest(piece_buf) = torrent.hashes[piece + 1]
            /\ piece_buf = Concat(blocks)
            /\ op = "cmd" => output' = piece_buf /\ ret' = ret
            /\ op = "piece" =>
                  ret' = [some |-> TRUE, bytes |-> piece_buf]
                  /\ output' = output
            /\ op = "file" =>
                  ret' = [some |-> TRUE, bytes |-> piece_buf]
                  /\ output' = BCat(output, piece_buf)
       /\ (/\ pc = "loop" /\ start >= piece_length /\ pc' # pc
           /\ Digest(piece_buf) # torrent.hashes[piece + 1]) =>
            /\ pc' = "failed"
            /\ fail'.kind \in {"LengthMismatch", "ChecksumMismatch"}
            /\ BLen(piece_buf) = piece_length =>
                  fail'.kind = "ChecksumMismatch"
            /\ ~Emits]_vars

\* a buffer of the expected length and another digest has been rejected
C1_Witness ==
    /\ pc = "failed"
    /\ fail.kind = "ChecksumMismatch"
    /\ BLen(piece_buf) = piece_length
    /\ piece_buf = Concat(blocks)
    /\ Len(blocks) > 1
    /\ ret = NoRet

\* C7 (block partition): the Requests sent for a piece of effective length
\* P are at the offsets 0, 16384, 2 * 16384, ... in this order, each of the
\* length min(16384, P - offset), and when the piece is complete there are
\* ceil(P / 16384) of them and their lengths sum to P.
C7_BlockPartition ==
    \A i \in 0 .. torrent.n - 1 :
       LET P == EffectiveLength(torrent, i)
           reqs == RequestsFor(i)
       IN /\ \A k \in 1 .. Len(reqs) :
                /\ reqs[k].begin = (k - 1) * BLOCK_MAX
                /\ reqs[k].begin < P
                /\ reqs[k].length = Min(BLOCK_MAX, P - reqs[k].begin)
          /\ Completed(i) =>
                /\ Len(reqs) = (P + BLOCK_MAX - 1) \div BLOCK_MAX
                /\ reqs[Len(reqs)].begin + reqs[Len(reqs)].length = P

\* C8 (effective piece length): an operation that downloads piece i works
\* with the length pieceLength when i is not the last piece, and for the
\* last piece with totalContentLength mod pieceLength, or pieceLength when
\* that is zero; no Request reaches beyond the end of the content.
C8_EffectiveLength ==
    /\ pc \in {"loop", "await_piece"} =>
          piece_length = EffectiveLength(torrent, piece)
    /\ \A i \in 0 .. torrent.n - 1 :
          \A k \in 1 .. Len(RequestsFor(i)) :
             i * torrent.pl + RequestsFor(i)[k].begin
                + RequestsFor(i)[k].length <= torrent.length

\* C9 (end-to-end success): with a peer that sends Bitfield, then Unchoke,
\* then for each Request the Piece message of the same index and offset
\* with the requested bytes of the true content, the acquisition does not
\* fail, and the piece it ends with is the true piece.
C9_EndToEnd ==
    (honest /\ (op = "cmd" \/ stage = 2)) =>
       /\ pc # "failed"
       /\ (op = "cmd" /\ pc = "done") => output = TruePiece(torrent, piece)
       /\ (op = "piece" /\ pc = "done") =>
             ret.bytes = TruePiece(torrent, piece)

\* C10 (AwaitBitfield): when the first message the command receives has the
\* Bitfield tag, the command goes on to send Interested; when it has another
\* tag, the command fails with UnexpectedMessage, having sent no message
\* and emitted no piece, and after a failure nothing is sent or emitted.
C10_AwaitBitfield ==
    [][/\ (/\ op = "cmd" /\ pc = "await_bitfield" /\ pc' # pc
           /\ FramedNext(src, closed).kind = "msg") =>
            IF FramedNext(src, closed).msg.tag = Bitfield
            THEN pc' = "send_interested"
            ELSE /\ pc' = "failed"
                 /\ fail' = Failure("UnexpectedMessage", "panic")
                 /\ sent' = << >>
                 /\ ~Emits
       /\ pc = "failed" => sent' = sent /\ ~Emits]_vars

\* the command has failed on a first message that is not a Bitfield
C10_Witness ==
    /\ op = "cmd"
    /\ pc = "failed"
    /\ fail = Failure("UnexpectedMessage", "panic")
    /\ sent = << >>
    /\ src = Empty

\* what the client's next receive gets from the read buffer
Incoming == FramedNext(src, closed)

\* the client takes keep-alive frames, and nothing else, from the buffer
DropsKeepAlives ==
    /\ ~closed
    /\ src # Empty
    /\ OnlyKeepAlives(src)
    /\ src' # src

\* C11 as stated (AwaitUnchoke): after Interested, a message other than
\* Unchoke and also a keep-alive frame end the command with
\* UnexpectedMessage.
C11_AsStated ==
    [][(/\ op = "cmd" /\ pc = "await_unchoke"
        /\ \/ DropsKeepAlives
           \/ /\ Incoming.kind = "msg" /\ Incoming.msg.tag # Unchoke
              /\ pc' # pc)
       => pc' = "failed" /\ fail'.kind = "UnexpectedMessage"]_vars

\* C11 as amended (AwaitUnchoke): after Interested, a message of a known
\* tag other than Unchoke (a Have message, for one) ends the command with
\* UnexpectedMessage, nothing more being sent and no piece emitted; a
\* keep-alive frame is dropped by the decoder and the command goes on
\* waiting; a Request is sent only when the first message taken after
\* Interested is Unchoke.
C11_AwaitUnchoke ==
    [][/\ (/\ op = "cmd" /\ pc = "await_unchoke" /\ pc' # pc
           /\ Incoming.kind = "msg") =>
            IF Incoming.msg.tag = Unchoke
            THEN pc' = "loop" /\ fail' = NoFail
            ELSE /\ pc' = "failed"
                 /\ fail' = Failure("UnexpectedMessage", "panic")
                 /\ sent' = sent
                 /\ ~Emits
       /\ (op = "cmd" /\ pc = "await_unchoke" /\ DropsKeepAlives) =>
            /\ pc' = "await_unchoke"
            /\ fail' = NoFail
            /\ src' = Empty
       /\ (op = "cmd" /\ Requests' # << >>) =>
            /\ Len(log') >= 3
            /\ log'[2] = Ev("send", Interested, -1)
            /\ log'[3] = Ev("recv", Unchoke, -1)]_vars

\* the command has failed on a message that is not Unchoke, after Interested
C11_Witness ==
    /\ op = "cmd"
    /\ pc = "failed"
    /\ fail = Failure("UnexpectedMessage", "panic")
    /\ sent = << Msg(Interested, Empty) >>
    /\ ~honest
    /\ stage = 1

\* the index and the offset of the Request sent last
Outstanding == PieceResponse(Requests[Len(Requests)].payload)

\* C12 (response matching): a Piece message whose index or offset is not
\* that of the outstanding Request ends the operation with
\* ResponseMismatch; its block is not appended, no Request follows and no
\* piece is emitted, in that step or after it.
C12_ResponseMatching ==
    [][/\ (/\ pc = "await_piece" /\ pc' # pc
           /\ Incoming.kind = "msg" /\ Incoming.msg.tag = Piece
           /\ BLen(Incoming.msg.payload) >= 8
           /\ \/ PieceResponse(Incoming.msg.payload).index
                    # Outstanding.index
              \/ PieceResponse(Incoming.msg.payload).begin
                    # Outstanding.begin) =>
            /\ pc' = "failed"
            /\ fail' = Failure("ResponseMismatch", "panic")
            /\ piece_buf' = piece_buf
            /\ blocks' = blocks
            /\ sent' = sent
            /\ ~Emits
       /\ pc = "failed" =>
            /\ piece_buf' = piece_buf
            /\ sent' = sent
            /\ ~Emits]_vars

\* a Piece message of another offset has been refused after a first block
C12_Witness ==
    /\ pc = "failed"
    /\ fail = Failure("ResponseMismatch", "panic")
    /\ Len(blocks) = 1
    /\ piece_buf = blocks[1]
    /\ Len(Requests) = 2

\* the Requests sent that no taken Piece message has answered
InFlight ==
    Len(Requests)
       - Len(SelectSeq(log, LAMBDA e : e.ev = "recv" /\ e.tag = Piece))

\* C13 (single outstanding request): the Requests sent are at most one
\* more than the Piece messages received and taken, and there is none
\* outstanding where the next Request is sent.
C13_SingleOutstanding ==
    /\ InFlight \in {0, 1}
    /\ pc = "loop" => InFlight = 0
    /\ pc = "await_piece" => InFlight = 1

\* a second Request is outstanding after the first has been answered
C13_Witness ==
    /\ pc = "await_piece"
    /\ InFlight = 1
    /\ Len(Requests) = 2
    /\ Len(blocks) = 1

\* the pieces written, among the first p entries of the log
Written(p) == SelectSeq(SubSeq(log, 1, p), LAMBDA e : e.ev = "write")

\* download_file has written the pieces 0, 1, ... in this order, and has
\* sent each Request for piece i after the pieces before i were written
\* and before piece i was
FileOrder ==
    /\ \A k \in 1 .. Len(Written(Len(log))) :
          Written(Len(log))[k].index = k - 1
    /\ \A p \in 1 .. Len(log) :
          (log[p].ev = "send" /\ log[p].tag = Request) =>
             Len(Written(p)) = log[p].index
    /\ pc = "done" => Len(Written(Len(log))) = torrent.n

\* C14 (whole-file ordering): download_file downloads the pieces 0, 1, ...,
\* n - 1 in this order, each once; it appends piece k to the output, after
\* the digest of its buffer was found to be the expected hash, before it
\* sends the first Request for piece k + 1.
C14_WholeFileOrdering ==
    [][op = "file" =>
          /\ FileOrder'
          /\ Len(log') > Len(log) /\ log'[Len(log')].ev = "write" =>
                /\ log'[Len(log')].index = piece
                /\ Digest(piece_buf) = torrent.hashes[piece + 1]
                /\ BLen(piece_buf) = piece_length
                /\ output' = BCat(output, piece_buf)]_vars

\* download_file has written all the pieces of a torrent of several
C14_Witness ==
    /\ op = "file"
    /\ pc = "done"
    /\ torrent.n > 1
    /\ Len(Written(Len(log))) = torrent.n
    /\ Len(Requests) > torrent.n

\* the bytes the operation has appended to the output file
Appended == BDrop(output, BLen(before))

\* the bytes of piece i in what download_file has appended
AppendedPiece(i) ==
    BSlice(Appended, i * torrent.pl,
           i * torrent.pl + EffectiveLength(torrent, i))

\* what download_file has appended is k pieces, each of its length in the
\* content and with the expected digest, after what the file held before
ValidatedPrefix(k) ==
    /\ BTake(output, BLen(before)) = before
    /\ BLen(Appended) = IF k = 0 THEN 0
                        ELSE (k - 1) * torrent.pl
                             + EffectiveLength(torrent, k - 1)
    /\ \A i \in 0 .. k - 1 :
          Digest(AppendedPiece(i)) = torrent.hashes[i + 1]

\* C23 (sink contents on failure): when download_file fails while it
\* acquires piece k, what it has appended to the output is the validated
\* pieces 0 .. k - 1 in this order and no byte more, the failing step
\* writes nothing, and no Request for a piece after k was sent; after the
\* failure nothing is sent.
C23_SinkOnFailure ==
    [][op = "file" =>
          /\ pc' = "failed" =>
                /\ ValidatedPrefix(piece)'
                /\ Len(Written(Len(log))') = piece'
                /\ output' = output
                /\ sent' = sent
                /\ \A q \in 1 .. Len(Requests') :
                      PieceResponse(Requests'[q].payload).index <= piece'
          /\ pc = "failed" => (sent' = sent /\ output' = output)]_vars

\* download_file failed on the digest of piece 1 after it had written
\* piece 0 to a file that was not empty
C23_Witness ==
    /\ op = "file"
    /\ pc = "failed"
    /\ fail = Failure("ChecksumMismatch", "panic")
    /\ piece = 1
    /\ before # Empty
    /\ Appended = TruePiece(torrent, 0)

\* C24 (output equals content): when download_file has returned success,
\* the content of the output file is the concatenation of the pieces
\* 0 .. n - 1, of the total length of the content, whatever the file
\* held before the call.
C24_OutputEqualsContent ==
    (op = "file" /\ pc = "done") =>
       /\ BLen(output) = torrent.length
       /\ \A i \in 0 .. torrent.n - 1 :
             Digest(BSlice(output, i * torrent.pl,
                           i * torrent.pl + EffectiveLength(torrent, i)))
                = torrent.hashes[i + 1]

\* C18 (connection closed while waiting): when the peer has closed the
\* connection and the client waits for a message, the operation ends with
\* a ConnectionClosed error value returned to its caller, sends nothing
\* more and emits no piece.
C18_ConnectionClosed ==
    [][(Awaiting /\ closed /\ src = Empty /\ pc' # pc) =>
          /\ pc' = "failed"
          /\ fail' = Failure("ConnectionClosed", "err")
          /\ sent' = sent
          /\ ~Emits]_vars

\* C19 (protocol step ordering): a Request is sent only on a connection on
\* which Bitfield was received, then Interested sent once, then Unchoke
\* received: by the command itself, or for download_piece and
\* download_file before the call.
C19_StepOrdering ==
    Requests # << >> =>
       IF op = "cmd"
       THEN /\ Len(log) >= 4
            /\ SubSeq(log, 1, 4) =
                  << Ev("recv", Bitfield, -1), Ev("send", Interested, -1),
                     Ev("recv", Unchoke, -1), Ev("send", Request, piece) >>
            /\ Len(SelectSeq(sent, LAMBDA m : m.tag = Interested)) = 1
            /\ sent[1] = Msg(Interested, Empty)
       ELSE stage = 2

\* C20 (strict response tag): while a Request is outstanding, a message of
\* a known tag other than Piece ends the operation with UnexpectedMessage
\* and nothing is emitted; keep-alive frames are dropped and the
\* operation goes on waiting; the loop goes on only with a Piece message.
C20_StrictResponseTag ==
    [][/\ (/\ pc = "await_piece" /\ pc' # pc
           /\ Incoming.kind = "msg" /\ Incoming.msg.tag # Piece) =>
            /\ pc' = "failed"
            /\ fail' = Failure("UnexpectedMessage", "panic")
            /\ piece_buf' = piece_buf
            /\ sent' = sent
            /\ ~Emits
       /\ (pc = "await_piece" /\ DropsKeepAlives) =>
            /\ pc' = "await_piece"
            /\ fail' = NoFail
            /\ src' = Empty
            /\ piece_buf' = piece_buf
       /\ (pc = "await_piece" /\ pc' = "loop") =>
            /\ Incoming.kind = "msg"
            /\ Incoming.msg.tag = Piece]_vars

\* a message that is not a Piece has ended a download after its first block
C20_Witness ==
    /\ pc = "failed"
    /\ fail = Failure("UnexpectedMessage", "panic")
    /\ InFlight = 1
    /\ Len(blocks) = 1
    /\ stage = 2

\* C21 (buffer tracks offset): when a Request with offset o is sent, the
\* piece buffer holds exactly o bytes.
C21_BufferTracksOffset ==
    [][Len(Requests') > Len(Requests) =>
          BLen(piece_buf') =
             PieceResponse(Requests'[Len(Requests')].payload).begin]_vars

\* C25 (malformed Piece payload): a Piece message whose payload is shorter
\* than 8 bytes ends the operation with an error returned to its caller,
\* not with a crash; no block is taken from it and no piece is emitted.
C25_MalformedPiece ==
    [][(/\ pc = "await_piece" /\ pc' # pc
        /\ Incoming.kind = "msg"
        /\ Incoming.msg.tag = Piece
        /\ BLen(Incoming.msg.payload) < 8) =>
          /\ pc' = "failed"
          /\ fail'.how = "err"
          /\ piece_buf' = piece_buf
          /\ ~Emits]_vars

(***************************************************************************)
(* Properties of the handshake.                                            *)
(***************************************************************************)
\* the 68 bytes are laid out as the handshake h: length byte, label,
\* reserved bytes, fingerprint, identity
LaidOut(bytes, h) ==
    /\ BLen(bytes) = 68
    /\ BAt(bytes, 0) = h.length
    /\ BSlice(bytes, 1, 20) = h.bittorrent
    /\ BSlice(bytes, 20, 28) = h.reserved
    /\ BSlice(bytes, 28, 48) = h.info_hash
    /\ BSlice(bytes, 48, 68) = h.peer_id

\* the handshake has been decoded from the whole reply of the peer
DecodedWhole == hs.decoded # NoDecoded /\ hs.nread >= 68

\* C15 (handshake fidelity): the encoding of Handshake::new(fingerprint,
\* identity) is 68 bytes, [19]["BitTorrent protocol"][8 zero bytes]
\* [fingerprint][identity], and decoding 68 such bytes gives back the
\* fingerprint and the identity, with length 19, the label and zero
\* reserved bytes.
C15_HandshakeFidelity ==
    /\ hs.mine # Empty =>
          /\ LaidOut(hs.mine,
                     [length |-> 19, bittorrent |-> Label,
                      reserved |-> BRep(0, 8), info_hash |-> hs.info_hash,
                      peer_id |-> MyPeerId])
          /\ Deserialize(hs.mine) = HandshakeNew(hs.info_hash, MyPeerId)
    /\ hs.reply # NoReply => LaidOut(BTake(hs.reply.bytes, 68), hs.reply.h)
    /\ (DecodedWhole /\ hs.reply.kind \in {"good", "framed"}) =>
          /\ hs.decoded = hs.reply.h
          /\ hs.decoded.length = 19
          /\ hs.decoded.bittorrent = Label
          /\ hs.decoded.reserved = BRep(0, 8)

\* the handshake of a peer of another fingerprint and identity was decoded
C15_Witness ==
    /\ DecodedWhole
    /\ hs.reply.kind = "good"
    /\ pc \in {"done", "await_bitfield"}
    /\ hs.decoded.info_hash # hs.info_hash
    /\ hs.decoded.info_hash = BRep(0, 20)
    /\ hs.decoded.peer_id # MyPeerId
    /\ hs.mine # Empty

\* C16 (handshake rejection): 68 received bytes whose length byte is not 19
\* or whose label is not the constant make the handshake decoding fail
\* with a ProtocolMismatch error returned to the caller, and the
\* connection is not used for framed messages.
C16_HandshakeRejection ==
    (/\ DecodedWhole
     /\ hs.decoded.length # 19 \/ hs.decoded.bittorrent # Label) =>
       /\ pc = "failed"
       /\ fail = Failure("ProtocolMismatch", "err")
       /\ sent = << >>

\* C17 (handshake partial reads): while the peer delivers its handshake in
\* parts, the handshake is not decoded before 68 bytes have been received.
C17_PartialReads ==
    (~closed /\ (pc = "hs_decode" \/ hs.decoded # NoDecoded)) =>
       hs.nread >= 68


(***************************************************************************)
(* Properties of the block loop on wide lengths.                           *)
(***************************************************************************)
\* C26 (32-bit offset arithmetic): for a piece length P below 2^32 the
\* offset of the loop never leaves the u32 range and never wraps, every
\* Request has offset < P and offset + length <= P, and the loop ends
\* after ceil(P / BLOCK_MAX) iterations; for a piece length that does not
\* fit in 32 bits no Request is made from its truncation.
C26_OffsetArithmetic ==
    lp.pc # "idle" =>
       /\ ~lp.wrapped
       /\ lp.pc # "panic"
       /\ lp.req # NoReq =>
             /\ LtW(lp.req.begin, lp.given)
             /\ ~LtW(lp.given, AddW(lp.req.begin, lp.req.length))
       /\ lp.given.top = 0 =>
             /\ lp.iter <= Blocks(lp.given)
             /\ lp.pc = "exit" => lp.iter = Blocks(lp.given)
       /\ lp.given.top # 0 => lp.req = NoReq

=============================================================================
